---- MODULE Spec2Model ----
(***************************************************************************)
(* Model of CarApp/Analyser.py: the worker loop Analyser.analyse, the lane *)
(* computation of __draw_lines and the throttled steering decision of      *)
(* __lane_assist.  The program is Python 2: "/" between integers is floor  *)
(* division.  Time is counted in milliseconds.                             *)
(***************************************************************************)
EXTENDS Integers, Sequences, FiniteSets, TLC

\* ---------------------------------------------------------------- bounds
MaxTime == 602
MaxFrames == 2
\* capacity of the annotated-frame channel
MaxQueue == 1

\* the amounts by which the clock may advance between two steps
TickSteps == {299, 300, 301}

\* ------------------------------------------------------- program constants
THROTTLE_MS == 300
DEADBAND == 20
INIT_COORD == 1

LEFT == "4/"
RIGHT == "5/"
STRAIGHT == "1/1/"

None == "None"

\* --------------------------------------------------------- input frames
\* A segment is <<x1, y1, x2, y2>>; found = FALSE is HoughLinesP returning None.
SegL100 == <<100, 480, 200, 280>>
SegR500 == <<500, 480, 400, 280>>
SegR560 == <<560, 480, 460, 280>>
SegR590 == <<590, 480, 490, 280>>

Images ==
  [ c300 |-> [found |-> TRUE, width |-> 640, height |-> 480, lines |-> <<SegL100, SegR500>>],
    c330 |-> [found |-> TRUE, width |-> 640, height |-> 480, lines |-> <<SegR560, SegL100>>],
    c345 |-> [found |-> TRUE, width |-> 640, height |-> 480, lines |-> <<SegL100, SegR590>>],
    odd  |-> [found |-> TRUE, width |-> 641, height |-> 480, lines |-> <<SegL100, SegR500>>],
    none |-> [found |-> FALSE, width |-> 640, height |-> 480, lines |-> <<>>] ]

ImageNames == DOMAIN Images

\* self.__current_frame after a failed imdecode (and before the first frame)
NoFrame(serial) == [serial |-> serial, img |-> None]

\* no token chosen
NoPending == [token |-> None, final_x |-> 0, width |-> 0]

\* ---------------------------------------------------------------- state
VARIABLES
  now,                  \* time.time(), in ms
  pc,                   \* position of the worker thread in analyse()
  is_running,           \* attribute of the worker thread, written by the controller
  is_analysing,         \* attribute of the worker thread, written by the controller
  frame_queue,          \* input-frame channel (unbounded): sequence of [serial, img]
  produced,             \* number of frames put on frame_queue so far
  dequeued,             \* number of frame_queue.get() calls that returned
  current_frame,        \* self.__current_frame: [serial, img], img = None if not decoded
  mode,                 \* value read from is_analysing in this iteration
  elapsed,              \* time.time() - self.__command_timer at the throttle test (local)
  pending,              \* the token chosen by __lane_assist, not yet put (local)
  command_timer,        \* self.__command_timer
  right_x1_coord,       \* module globals written by __draw_lines
  left_x1_coord,
  y1_coord,
  commands_queue,       \* command channel (unbounded): every command put so far, in order
  analysed_frame_queue, \* annotated-frame channel: every item put so far, in order
  analysed_taken,       \* how many of them the consumer has removed
  start_time,           \* time at which analyse() started (history)
  \* __hough_lines / __draw_lines on one frame, seen from inside
  lane_in,              \* the frame given to __draw_lines: [found, width, height, lines]
  lane_out,             \* the locals of __draw_lines and __lane_assist when they return
  lanes_done,           \* 1 once a frame has been analysed, 0 before
  \* CarMain.py
  car_pc,               \* position of the thread that executes CarMain.run
  car_is_running,       \* CarMain.__is_running
  car_lock,             \* holder of CarMain.__is_running_lock, or "free"
  car_condition,        \* the local of run() read under the lock
  stop_pc,              \* position of each caller of CarMain.stop()
  controller_server,    \* state of the ControllerServer thread
  streamer_server       \* state of the StreamerServer thread

laneVars == << lane_in, lane_out, lanes_done >>
carVars == << car_pc, car_is_running, car_lock, car_condition, stop_pc,
              controller_server, streamer_server >>

\* the state outside the worker loop of analyse()
otherVars == << laneVars, carVars >>

vars == << now, pc, is_running, is_analysing, frame_queue, produced, dequeued,
           current_frame, mode, elapsed, pending, command_timer,
           right_x1_coord, left_x1_coord, y1_coord,
           commands_queue, analysed_frame_queue, analysed_taken,
           start_time, laneVars, carVars >>

\* ------------------------------------------------------------ arithmetic
\* Python 2 integer "/" : floor division, for either sign of the divisor
FloorDiv(a, b) == IF b > 0 THEN a \div b ELSE (-a) \div (-b)

\* int(a / b) on the exact quotient: truncation toward zero
Trunc(a, b) ==
  LET n == IF b > 0 THEN a ELSE -a
      d == IF b > 0 THEN b ELSE -b
  IN IF n >= 0 THEN n \div d ELSE -((-n) \div d)

Abs(a) == IF a < 0 THEN -a ELSE a

RECURSIVE SumSeq(_)
SumSeq(s) == IF s = <<>> THEN 0 ELSE Head(s) + SumSeq(Tail(s))

\* ------------------------------------------------------------ __draw_lines
\* slope of a segment as the program computes it on integer endpoints
Slope(seg) ==
  IF seg[3] - seg[1] = 0 THEN 999
  ELSE FloorDiv(seg[4] - seg[2], seg[3] - seg[1])

\* abs(slope) > slope_threshold (0.5), on the integer slope
PassesFilter(seg) == 2 * Abs(Slope(seg)) > 1

ImgXCenter(width) == FloorDiv(width, 2)

IsRight(seg, width) ==
  /\ PassesFilter(seg)
  /\ Slope(seg) > 0
  /\ seg[1] > ImgXCenter(width)
  /\ seg[3] > ImgXCenter(width)

\* mutant: an endpoint on the center column accepted on the left
IsLeft_Touching(seg, width) ==
  /\ PassesFilter(seg)
  /\ ~IsRight(seg, width)
  /\ Slope(seg) < 0
  /\ seg[1] <= ImgXCenter(width)
  /\ seg[3] <= ImgXCenter(width)

IsLeft(seg, width) ==
  /\ PassesFilter(seg)
  /\ ~IsRight(seg, width)
  /\ Slope(seg) < 0
  /\ seg[1] < ImgXCenter(width)
  /\ seg[3] < ImgXCenter(width)

RECURSIVE RightLines(_, _)
RightLines(lines, width) ==
  IF lines = <<>> THEN <<>>
  ELSE (IF IsRight(Head(lines), width) THEN <<Head(lines)>> ELSE <<>>)
       \o RightLines(Tail(lines), width)

RECURSIVE LeftLines(_, _)
LeftLines(lines, width) ==
  IF lines = <<>> THEN <<>>
  ELSE (IF IsLeft(Head(lines), width) THEN <<Head(lines)>> ELSE <<>>)
       \o LeftLines(Tail(lines), width)

\* the x's and y's of the endpoints of a sequence of segments
RECURSIVE PointsX(_)
PointsX(ls) == IF ls = <<>> THEN <<>> ELSE <<Head(ls)[1], Head(ls)[3]>> \o PointsX(Tail(ls))

RECURSIVE PointsY(_)
PointsY(ls) == IF ls = <<>> THEN <<>> ELSE <<Head(ls)[2], Head(ls)[4]>> \o PointsY(Tail(ls))

\* int((y - b) / m) for the least-squares line y = m*x + b through the
\* endpoints of ls; for an empty side the program takes m = 1, b = 1.
\* With m = N/D and b = (Sy*D - N*Sx)/(n*D):  (y - b)/m = (n*y*D - Sy*D + N*Sx)/(n*N)
\* The least-squares fit of np.polyfit is taken exactly (no rounding error).
ExtrapolateX(ls, y) ==
  IF ls = <<>> THEN y - 1
  ELSE LET xs == PointsX(ls)
           ys == PointsY(ls)
           n == Len(xs)
           Sx == SumSeq(xs)
           Sy == SumSeq(ys)
           Sxx == SumSeq([i \in 1..n |-> xs[i] * xs[i]])
           Sxy == SumSeq([i \in 1..n |-> xs[i] * ys[i]])
           D == n * Sxx - Sx * Sx
           N == n * Sxy - Sx * Sy
       IN IF D = 0
          THEN \* all x equal to xs[1]: the fit is rank deficient and np.polyfit
               \* returns the minimum-norm solution m = Sy/(2*n*x), b = Sy/(2*n)
               Trunc((2 * n * y - Sy) * xs[1], Sy)
          ELSE Trunc(n * y * D - Sy * D + N * Sx, n * N)

\* mutants of __draw_lines: an empty side keeping the coordinate stored by an
\* earlier frame, and the early return for a frame without segments left out
DrawLines_KeepStale(img, old) ==
  IF ~img.found THEN old
  ELSE IF Len(img.lines) = 0 THEN old
  ELSE [ right_x1 |-> IF RightLines(img.lines, img.width) = <<>> THEN old.right_x1
                      ELSE ExtrapolateX(RightLines(img.lines, img.width), img.height),
         left_x1  |-> IF LeftLines(img.lines, img.width) = <<>> THEN old.left_x1
                      ELSE ExtrapolateX(LeftLines(img.lines, img.width), img.height),
         y1       |-> img.height ]

DrawLines_NoEarlyReturn(img, old) ==
  [ right_x1 |-> ExtrapolateX(RightLines(img.lines, img.width), img.height),
    left_x1  |-> ExtrapolateX(LeftLines(img.lines, img.width), img.height),
    y1       |-> img.height ]

\* the three globals after __draw_lines(img, lines), given their old values
DrawLines(img, old) ==
  IF ~img.found THEN old
  ELSE IF Len(img.lines) = 0 THEN old
  ELSE [ right_x1 |-> ExtrapolateX(RightLines(img.lines, img.width), img.height),
         left_x1  |-> ExtrapolateX(LeftLines(img.lines, img.width), img.height),
         y1       |-> img.height ]

\* the segments that pass the slope filter (lines 123-135)
RECURSIVE NewLines(_)
NewLines(lines) ==
  IF lines = <<>> THEN <<>>
  ELSE (IF PassesFilter(Head(lines)) THEN <<Head(lines)>> ELSE <<>>) \o NewLines(Tail(lines))

\* mutant: the regression and the drawing done for a side without points
HasPoints_Always(ls) == TRUE

\* len(right_lines_x) > 0 (lines 166, 183): the side is fitted and drawn
HasPoints(ls) == Len(PointsX(ls)) > 0

\* no frame analysed yet
NoLaneFrame == [found |-> FALSE, width |-> 0, height |-> 0, lines |-> <<>>]
NoLaneOut == [locals |-> [ran |-> FALSE, new_lines |-> <<>>, right_lines |-> <<>>,
                           left_lines |-> <<>>, polyfit |-> {},
                           draw_right |-> FALSE, draw_left |-> FALSE],
              final_x |-> 0, token |-> None]

\* the callers of CarMain.stop()
Stoppers == {"s1", "s2"}

\* ------------------------------------------------------------ __lane_assist
FinalX(right_x1, left_x1) == FloorDiv(right_x1 + left_x1, 2)

\* mutants of the throttle test: the interval taken in the wrong unit, and
\* the comparison made inclusive
ThrottleOpen_Seconds(dt) == 1000 * dt > THROTTLE_MS
ThrottleOpen_Inclusive(dt) == dt >= THROTTLE_MS

ThrottleOpen(dt) == dt > THROTTLE_MS

\* mutants of the decision: the two steering tokens exchanged, and the
\* deadband taken without its edges
Decide_Swapped(final_x, width) ==
  IF (final_x < FloorDiv(width, 2) - DEADBAND) \/ (final_x > FloorDiv(width, 2) + DEADBAND)
  THEN (IF final_x < FloorDiv(width, 2) THEN RIGHT ELSE LEFT)
  ELSE STRAIGHT

Decide_OpenBand(final_x, width) ==
  IF (final_x <= FloorDiv(width, 2) - DEADBAND) \/ (final_x >= FloorDiv(width, 2) + DEADBAND)
  THEN (IF final_x < FloorDiv(width, 2) THEN LEFT ELSE RIGHT)
  ELSE STRAIGHT

Decide(final_x, width) ==
  IF (final_x < FloorDiv(width, 2) - DEADBAND) \/ (final_x > FloorDiv(width, 2) + DEADBAND)
  THEN (IF final_x < FloorDiv(width, 2) THEN LEFT ELSE RIGHT)
  ELSE STRAIGHT

\* ------------------------------------------------------------------ Init
Init ==
  /\ now = 0
  /\ pc = "init"
  /\ is_running = TRUE
  /\ is_analysing = TRUE
  /\ frame_queue = <<>>
  /\ produced = 0
  /\ dequeued = 0
  /\ current_frame = NoFrame(0)
  /\ mode = TRUE
  /\ elapsed = 0
  /\ pending = NoPending
  /\ command_timer = 0
  /\ right_x1_coord = INIT_COORD
  /\ left_x1_coord = INIT_COORD
  /\ y1_coord = INIT_COORD
  /\ commands_queue = <<>>
  /\ analysed_frame_queue = <<>>
  /\ analysed_taken = 0
  /\ start_time = 0
  /\ lane_in = NoLaneFrame
  /\ lane_out = NoLaneOut
  /\ lanes_done = 0
  /\ car_pc = "unstarted"
  /\ car_is_running = FALSE
  /\ car_lock = "free"
  /\ car_condition = FALSE
  /\ stop_pc = [c \in Stoppers |-> "idle"]
  /\ controller_server = None
  /\ streamer_server = None

\* --------------------------------------------------------------- worker
envVars == << is_running, is_analysing, frame_queue, produced >>
logVars == << commands_queue, analysed_frame_queue, analysed_taken >>
coordVars == << right_x1_coord, left_x1_coord, y1_coord >>

\* analyse(), lines 54-55
Start ==
  /\ pc = "init"
  /\ command_timer' = now
  /\ start_time' = now
  /\ pc' = "loop"
  /\ UNCHANGED otherVars
  /\ UNCHANGED << now, is_running, is_analysing, frame_queue, produced, dequeued,
                  current_frame, mode, elapsed, pending, coordVars, logVars >>

\* the while test, line 56
LoopTest ==
  /\ pc = "loop"
  /\ pc' = IF is_running THEN "get" ELSE "stopped"
  /\ UNCHANGED otherVars
  /\ UNCHANGED << now, is_running, is_analysing, frame_queue, produced, dequeued,
                  current_frame, mode, elapsed, pending, command_timer,
                  coordVars, logVars, start_time >>

\* mutant of the dequeue: the newest frame is taken instead of the oldest
GetFrame_Newest ==
  /\ pc = "get"
  /\ frame_queue # <<>>
  /\ \E decodes \in BOOLEAN :
       current_frame' = IF decodes THEN frame_queue[Len(frame_queue)]
                        ELSE NoFrame(frame_queue[Len(frame_queue)].serial)
  /\ frame_queue' = SubSeq(frame_queue, 1, Len(frame_queue) - 1)
  /\ dequeued' = dequeued + 1
  /\ pc' = "mode"
  /\ UNCHANGED otherVars
  /\ UNCHANGED << now, is_running, is_analysing, produced, mode, elapsed, pending,
                  command_timer, coordVars, logVars, start_time >>

\* mutant of the dequeue: a wait that gives up when the stop flag is set
GetFrame_Cancellable ==
  /\ pc = "get"
  /\ IF frame_queue = <<>>
     THEN /\ ~is_running
          /\ pc' = "stopped"
          /\ UNCHANGED << frame_queue, dequeued, current_frame >>
     ELSE /\ \E decodes \in BOOLEAN :
               current_frame' = IF decodes THEN Head(frame_queue)
                                ELSE NoFrame(Head(frame_queue).serial)
          /\ frame_queue' = Tail(frame_queue)
          /\ dequeued' = dequeued + 1
          /\ pc' = "mode"
  /\ UNCHANGED otherVars
  /\ UNCHANGED << now, is_running, is_analysing, produced, mode, elapsed, pending,
                  command_timer, coordVars, logVars, start_time >>

\* frame_queue.get(True, None) and imdecode, lines 57-60; imdecode returns
\* None for bytes that are no image
GetFrame ==
  /\ pc = "get"
  /\ frame_queue # <<>>
  /\ \E decodes \in BOOLEAN :
       current_frame' = IF decodes THEN Head(frame_queue)
                        ELSE NoFrame(Head(frame_queue).serial)
  /\ frame_queue' = Tail(frame_queue)
  /\ dequeued' = dequeued + 1
  /\ pc' = "mode"
  /\ UNCHANGED otherVars
  /\ UNCHANGED << now, is_running, is_analysing, produced, mode, elapsed, pending,
                  command_timer, coordVars, logVars, start_time >>

\* mutant of the mode test: the lane analysis runs whatever the flag says
ReadMode_AlwaysAnalyse ==
  /\ pc = "mode"
  /\ mode' = is_analysing
  /\ pc' = "lane"
  /\ UNCHANGED otherVars
  /\ UNCHANGED << now, is_running, is_analysing, frame_queue, produced, dequeued,
                  current_frame, elapsed, pending, command_timer,
                  coordVars, logVars, start_time >>

\* the test of is_analysing, line 62
ReadMode ==
  /\ pc = "mode"
  /\ mode' = is_analysing
  /\ pc' = IF is_analysing THEN "lane" ELSE "encode"
  /\ UNCHANGED otherVars
  /\ UNCHANGED << now, is_running, is_analysing, frame_queue, produced, dequeued,
                  current_frame, elapsed, pending, command_timer,
                  coordVars, logVars, start_time >>

\* __lane_assist up to the throttle test, lines 242-275; on a frame that did
\* not decode (None) the first cv2 call, cvtColor on line 242, raises and the
\* exception ends the thread
LaneAssist ==
  /\ pc = "lane"
  /\ IF current_frame.img = None
     THEN /\ pc' = "crashed"
          /\ UNCHANGED << coordVars, elapsed, pending >>
     ELSE LET img == Images[current_frame.img]
              g == DrawLines(img, [right_x1 |-> right_x1_coord, left_x1 |-> left_x1_coord,
                                   y1 |-> y1_coord])
              final_x == FinalX(g.right_x1, g.left_x1)
          IN /\ right_x1_coord' = g.right_x1
             /\ left_x1_coord' = g.left_x1
             /\ y1_coord' = g.y1
             /\ elapsed' = now - command_timer
             /\ IF ThrottleOpen(now - command_timer)
                THEN /\ pending' = [token |-> Decide(final_x, img.width),
                                    final_x |-> final_x, width |-> img.width]
                     /\ pc' = "put_command"
                ELSE /\ pending' = NoPending
                     /\ pc' = "encode"
  /\ UNCHANGED otherVars
  /\ UNCHANGED << now, is_running, is_analysing, frame_queue, produced, dequeued,
                  current_frame, mode, command_timer, logVars, start_time >>

\* commands_queue.put(token, True, None), lines 277, 280, 282
\* mutant: the command put twice in one iteration
PutCommand_Twice ==
  /\ pc = "put_command"
  /\ commands_queue' = commands_queue \o
        << [token |-> pending.token, final_x |-> pending.final_x, width |-> pending.width,
            frame |-> current_frame.serial, time |-> now],
           [token |-> pending.token, final_x |-> pending.final_x, width |-> pending.width,
            frame |-> current_frame.serial, time |-> now] >>
  /\ pc' = "set_timer"
  /\ UNCHANGED otherVars
  /\ UNCHANGED << now, is_running, is_analysing, frame_queue, produced, dequeued,
                  current_frame, mode, elapsed, pending, command_timer, coordVars,
                  analysed_frame_queue, analysed_taken, start_time >>

PutCommand ==
  /\ pc = "put_command"
  /\ commands_queue' = Append(commands_queue,
        [token |-> pending.token, final_x |-> pending.final_x, width |-> pending.width,
         frame |-> current_frame.serial, time |-> now])
  /\ pc' = "set_timer"
  /\ UNCHANGED otherVars
  /\ UNCHANGED << now, is_running, is_analysing, frame_queue, produced, dequeued,
                  current_frame, mode, elapsed, pending, command_timer, coordVars,
                  analysed_frame_queue, analysed_taken, start_time >>

\* mutant of the timer reset: the timer is left as it was
SetTimer_Forgotten ==
  /\ pc = "set_timer"
  /\ pc' = "encode"
  /\ UNCHANGED otherVars
  /\ UNCHANGED << now, is_running, is_analysing, frame_queue, produced, dequeued,
                  current_frame, mode, elapsed, pending, command_timer, coordVars,
                  logVars, start_time >>

\* self.__command_timer = time.time(), line 283
SetTimer ==
  /\ pc = "set_timer"
  /\ command_timer' = now
  /\ pc' = "encode"
  /\ UNCHANGED otherVars
  /\ UNCHANGED << now, is_running, is_analysing, frame_queue, produced, dequeued,
                  current_frame, mode, elapsed, pending, coordVars, logVars, start_time >>

\* cv2.imencode and the test of its result, lines 64-67 and 71-74: a false
\* result breaks out of the loop; imencode of a None frame (BYPASS after a
\* failed decode) raises
Encode ==
  /\ pc = "encode"
  /\ IF current_frame.img = None
     THEN pc' = "crashed"
     ELSE \E result \in BOOLEAN : pc' = IF result THEN "put_frame" ELSE "stopped"
  /\ UNCHANGED otherVars
  /\ UNCHANGED << now, is_running, is_analysing, frame_queue, produced, dequeued,
                  current_frame, mode, elapsed, pending, command_timer,
                  coordVars, logVars, start_time >>

\* analysed_frame_queue.put(..., True, None), lines 69 and 76
PutAnalysedFrame ==
  /\ pc = "put_frame"
  /\ Len(analysed_frame_queue) - analysed_taken < MaxQueue
  /\ analysed_frame_queue' = Append(analysed_frame_queue,
        [frame |-> current_frame.serial, annotated |-> mode])
  /\ elapsed' = 0
  /\ pending' = NoPending
  /\ pc' = "loop"
  /\ UNCHANGED otherVars
  /\ UNCHANGED << now, is_running, is_analysing, frame_queue, produced, dequeued,
                  current_frame, mode, command_timer, coordVars,
                  commands_queue, analysed_taken, start_time >>

\* ---------------------------------------------------------- environment
\* the clock; time 0 is the moment analyse() is entered
Tick ==
  /\ pc # "init"
  /\ \E d \in TickSteps : now + d <= MaxTime /\ now' = now + d
  /\ UNCHANGED otherVars
  /\ UNCHANGED << pc, is_running, is_analysing, frame_queue, produced, dequeued,
                  current_frame, mode, elapsed, pending, command_timer,
                  coordVars, logVars, start_time >>

\* the streamer puts a received frame on the input-frame channel
ProduceFrame ==
  /\ produced < MaxFrames
  /\ \E img \in ImageNames :
       frame_queue' = Append(frame_queue, [serial |-> produced + 1, img |-> img])
  /\ produced' = produced + 1
  /\ UNCHANGED otherVars
  /\ UNCHANGED << now, pc, is_running, is_analysing, dequeued, current_frame, mode,
                  elapsed, pending, command_timer, coordVars, logVars, start_time >>

\* the controller clears is_running on the worker thread
StopRequest ==
  /\ is_running
  /\ is_running' = FALSE
  /\ UNCHANGED otherVars
  /\ UNCHANGED << now, pc, is_analysing, frame_queue, produced, dequeued,
                  current_frame, mode, elapsed, pending, command_timer,
                  coordVars, logVars, start_time >>

\* the controller switches between ANALYZE and BYPASS
SetAnalysing ==
  /\ is_analysing' = ~is_analysing
  /\ UNCHANGED otherVars
  /\ UNCHANGED << now, pc, is_running, frame_queue, produced, dequeued,
                  current_frame, mode, elapsed, pending, command_timer,
                  coordVars, logVars, start_time >>

TakeAnalysedFrame ==
  /\ analysed_taken < Len(analysed_frame_queue)
  /\ analysed_taken' = analysed_taken + 1
  /\ UNCHANGED otherVars
  /\ UNCHANGED << now, pc, is_running, is_analysing, frame_queue, produced, dequeued,
                  current_frame, mode, elapsed, pending, command_timer, coordVars,
                  commands_queue, analysed_frame_queue, start_time >>

Next ==
  \/ Start
  \/ LoopTest
  \/ GetFrame
  \/ ReadMode
  \/ LaneAssist
  \/ PutCommand
  \/ SetTimer
  \/ Encode
  \/ PutAnalysedFrame
  \/ Tick
  \/ ProduceFrame
  \/ StopRequest
  \/ SetAnalysing
  \/ TakeAnalysedFrame

Spec == Init /\ [][Next]_vars

\* ====================================================================
\* __draw_lines and the decision of __lane_assist on frames whose segments
\* are drawn from a grid (the throttle left aside)
\* ====================================================================
LaneXs == {1, 3, 4, 5, 7}
LaneYs == {0, 1, 4}
LaneWidths == {8, 9}
LaneHeights == {4}
BlankWidths == {43, 44}

\* the segments HoughLinesP can return on the grid (none of length zero)
LaneSegments ==
  { seg \in LaneXs \X LaneYs \X LaneXs \X LaneYs : seg[1] # seg[3] \/ seg[2] # seg[4] }

\* the segments of one half of the image that join its top and bottom rows
LaneHalfSegments(xs) ==
  { seg \in xs \X {0, 4} \X xs \X {0, 4} : seg[1] # seg[3] \/ seg[2] # seg[4] }

\* a segment in the left half followed by one in the right half
LanePairs == { <<a, b>> : a \in LaneHalfSegments({1, 3}), b \in LaneHalfSegments({5, 7}) }

LaneFrames ==
  { [found |-> TRUE, width |-> w, height |-> h, lines |-> <<seg>>] :
      w \in LaneWidths, h \in LaneHeights, seg \in LaneSegments }
  \cup { [found |-> TRUE, width |-> 8, height |-> h, lines |-> pair] :
      h \in LaneHeights, pair \in LanePairs }
  \cup { [found |-> f, width |-> w, height |-> h, lines |-> <<>>] :
      f \in BOOLEAN, w \in BlankWidths, h \in LaneHeights }

\* the locals of __draw_lines when it returns (lines 110-223)
DrawLinesLocals(img) ==
  IF ~img.found \/ Len(img.lines) = 0
  THEN [ran |-> FALSE, new_lines |-> <<>>, right_lines |-> <<>>, left_lines |-> <<>>,
        polyfit |-> {}, draw_right |-> FALSE, draw_left |-> FALSE]
  ELSE LET right_lines == RightLines(img.lines, img.width)
           left_lines == LeftLines(img.lines, img.width)
       IN [ran |-> TRUE,
           new_lines |-> NewLines(img.lines),
           right_lines |-> right_lines,
           left_lines |-> left_lines,
           polyfit |-> (IF HasPoints(right_lines) THEN {"right"} ELSE {})
                       \cup (IF HasPoints(left_lines) THEN {"left"} ELSE {}),
           draw_right |-> HasPoints(right_lines),
           draw_left |-> HasPoints(left_lines)]

\* one call of __lane_assist: __hough_lines -> __draw_lines, then the marker
\* and the decision of lines 266-282
AnalyseLanes ==
  /\ \E img \in LaneFrames :
       \E coords \in { DrawLines(img, [right_x1 |-> right_x1_coord,
                                        left_x1 |-> left_x1_coord,
                                        y1 |-> y1_coord]) } :
         \E final_x \in { FinalX(coords.right_x1, coords.left_x1) } :
           /\ lane_in' = img
           /\ right_x1_coord' = coords.right_x1
           /\ left_x1_coord' = coords.left_x1
           /\ y1_coord' = coords.y1
           /\ lane_out' = [locals |-> DrawLinesLocals(img),
                           final_x |-> final_x,
                           token |-> Decide(final_x, img.width)]
  /\ lanes_done' = 1
  /\ UNCHANGED carVars
  /\ UNCHANGED << now, pc, is_running, is_analysing, frame_queue, produced, dequeued,
                  current_frame, mode, elapsed, pending, command_timer,
                  commands_queue, analysed_frame_queue, analysed_taken, start_time >>

NextLanes == AnalyseLanes

SpecLanes == Init /\ [][NextLanes]_vars


\* ====================================================================
\* Properties
\* ====================================================================
\* number of commands put for the frame with this serial
CmdCount(serial) ==
  Cardinality({i \in 1..Len(commands_queue) : commands_queue[i].frame = serial})

\* number of annotated-frame channel items put for the frame with this serial
OutCount(serial) ==
  Cardinality({i \in 1..Len(analysed_frame_queue) : analysed_frame_queue[i].frame = serial})

\* the worker is past __lane_assist in an ANALYZE iteration
AfterLaneAssist == pc \in {"encode", "put_frame"} /\ mode

\* ------------------------------------------------------------------ C1
C1_Gaps ==
  \A i \in 1..Len(commands_queue) :
    /\ commands_queue[i].time - start_time >= THROTTLE_MS
    /\ i > 1 => commands_queue[i].time - commands_queue[i - 1].time >= THROTTLE_MS

\* C1: an ANALYZE iteration in which less than 300 ms have elapsed since
\* command_timer puts no command and leaves command_timer alone; two
\* consecutive commands are at least 300 ms apart and none is put in the
\* first 300 ms after the worker started.
C1_ThrottleLowerBound ==
  [][ /\ (pc = "lane" /\ now - command_timer < THROTTLE_MS)
           => /\ commands_queue' = commands_queue
              /\ command_timer' = command_timer
              /\ pc' # "put_command"
      /\ (AfterLaneAssist /\ elapsed < THROTTLE_MS)
           => UNCHANGED << commands_queue, command_timer >>
      /\ C1_Gaps' ]_vars

\* a frame analysed with the throttle closed, after an earlier command
C1_Witness ==
  /\ AfterLaneAssist
  /\ elapsed < THROTTLE_MS
  /\ Len(commands_queue) >= 1
  /\ commands_queue[Len(commands_queue)].frame < current_frame.serial
  /\ command_timer >= commands_queue[Len(commands_queue)].time

\* ------------------------------------------------------------------ C2
\* C2 as stated: an ANALYZE iteration with at least 300 ms elapsed (exactly
\* 300 ms included) puts exactly one command.
C2_Original ==
  (AfterLaneAssist /\ elapsed >= THROTTLE_MS) => CmdCount(current_frame.serial) = 1

\* C2 amended: an ANALYZE iteration puts a command iff its frame decoded and
\* strictly more than 300 ms had elapsed at the throttle test; it then puts
\* exactly one and sets command_timer to the current time.  command_timer
\* changes at no other moment after the worker has started.
C2_ThrottleRelease ==
  [][ /\ AfterLaneAssist' =>
            /\ CmdCount(current_frame.serial)' = (IF elapsed' > THROTTLE_MS THEN 1 ELSE 0)
            /\ elapsed' > THROTTLE_MS =>
                 /\ commands_queue'[Len(commands_queue')].frame = current_frame'.serial
                 /\ command_timer' >= commands_queue'[Len(commands_queue')].time
      /\ pc' = "crashed" => CmdCount(current_frame.serial)' = 0
      /\ pc = "put_command" /\ pc' # pc =>
            /\ Len(commands_queue') = Len(commands_queue) + 1
            /\ pc' = "set_timer"
      /\ command_timer' # command_timer =>
            /\ pc \in {"init", "set_timer"}
            /\ command_timer' = now ]_vars

\* the throttle has let a command through and the timer was reset
C2_Witness ==
  /\ AfterLaneAssist
  /\ elapsed > THROTTLE_MS
  /\ CmdCount(current_frame.serial) = 1
  /\ command_timer = commands_queue[Len(commands_queue)].time

\* ------------------------------------------------------------------ C3
Tokens == {LEFT, RIGHT, STRAIGHT}

\* C3 as stated, with W/2 the exact half of the width:
\* centerX < W/2 - 20 is 2*centerX < W - 40.
C3_Original ==
  \A i \in 1..Len(commands_queue) :
    LET c == commands_queue[i] IN
      c.token = IF 2 * c.final_x < c.width - 2 * DEADBAND THEN LEFT
                ELSE IF 2 * c.final_x > c.width + 2 * DEADBAND THEN RIGHT
                ELSE STRAIGHT

\* C3 amended: with W/2 the integer (floor) half of the width, the token is
\* "4/" iff centerX < W/2 - 20, "5/" iff centerX > W/2 + 20, "1/1/" otherwise;
\* no other token is put on the command channel.
C3_Deadband ==
  \A i \in 1..Len(commands_queue) :
    LET c == commands_queue[i]
        half == c.width \div 2
    IN /\ c.token \in Tokens
       /\ c.token = LEFT <=> c.final_x < half - DEADBAND
       /\ c.token = RIGHT <=> c.final_x > half + DEADBAND
       /\ c.token = STRAIGHT <=> (half - DEADBAND <= c.final_x /\ c.final_x <= half + DEADBAND)

\* a command on the lower edge of the deadband of an odd-width frame
C3_Witness ==
  \E i \in 1..Len(commands_queue) :
    /\ commands_queue[i].width = 641
    /\ commands_queue[i].final_x = 300
    /\ commands_queue[i].token = STRAIGHT

\* ------------------------------------------------------------------ C4
\* C4: the worker leaves the loop only at the while test, with the stop flag
\* set; it never leaves between the dequeue of a frame and the enqueue of
\* that frame's output.
C4_CooperativeStop ==
  pc = "stopped" =>
    /\ ~is_running
    /\ Len(analysed_frame_queue) = dequeued

\* ------------------------------------------------------------------ C5
\* C5: a frame that fails to decode or to encode is skipped and the worker
\* stays in its loop: no step taken while a frame is held ends the worker.
C5_Recoverable ==
  [][ (pc \in {"mode", "lane", "encode"}) => (pc' \notin {"stopped", "crashed"}) ]_vars

\* ------------------------------------------------------------------ C6
\* the worker is in an iteration that goes (or has gone) the BYPASS way
BypassStep ==
  \/ pc = "mode" /\ ~is_analysing
  \/ pc \in {"encode", "put_frame"} /\ ~mode

\* the last iteration was a BYPASS iteration and is over
BypassOver == pc \in {"loop", "get", "stopped", "crashed"} /\ dequeued > 0 /\ ~mode

\* ... and the loop went on or ended without an exception
BypassReturned == BypassOver /\ pc # "crashed"

\* C6 as stated: every BYPASS iteration puts exactly one frame on the
\* annotated-frame channel.
C6_Original == BypassReturned => OutCount(current_frame.serial) = 1

C6_Outputs ==
  /\ \A i \in 1..Len(analysed_frame_queue) :
       ~analysed_frame_queue[i].annotated =>
          /\ CmdCount(analysed_frame_queue[i].frame) = 0
          /\ OutCount(analysed_frame_queue[i].frame) = 1
  /\ BypassOver =>
       /\ CmdCount(current_frame.serial) = 0
       /\ OutCount(current_frame.serial) = (IF pc \in {"loop", "get"} THEN 1 ELSE 0)
            \/ (pc = "stopped" /\ OutCount(current_frame.serial) = 1)
       /\ pc \in {"loop", "get"} =>
            analysed_frame_queue[Len(analysed_frame_queue)] =
              [frame |-> current_frame.serial, annotated |-> FALSE]

\* C6 amended: a BYPASS iteration puts at most one frame on the
\* annotated-frame channel: exactly one, the re-encoded un-annotated frame,
\* when the frame decodes and encodes, and none when it does not (the
\* worker then ends); it puts nothing on the command channel and leaves
\* command_timer and the three stored coordinates unchanged.
C6_Bypass ==
  [][ /\ BypassStep =>
           /\ UNCHANGED << commands_queue, command_timer, coordVars >>
           /\ Len(analysed_frame_queue') <= Len(analysed_frame_queue) + 1
      /\ (pc = "put_frame" /\ ~mode /\ pc' # pc) =>
           Len(analysed_frame_queue') = Len(analysed_frame_queue) + 1
      /\ C6_Outputs' ]_vars

\* a BYPASS iteration that has forwarded its frame, after a command was emitted
C6_Witness ==
  /\ pc = "loop"
  /\ ~mode
  /\ Len(commands_queue) >= 1
  /\ Len(analysed_frame_queue) >= 1
  /\ analysed_frame_queue[Len(analysed_frame_queue)] =
       [frame |-> current_frame.serial, annotated |-> FALSE]

\* ------------------------------------------------------------------ C7
\* C7: frames are dequeued in arrival order, one at a time; the k-th item on
\* the annotated-frame channel is the output of the k-th dequeued frame;
\* commands are in the order of their frames; nothing is output for a frame
\* not dequeued and no frame has more than one annotated output.
C7_Fifo ==
  /\ \A i \in 1..Len(frame_queue) : frame_queue[i].serial = dequeued + i
  /\ dequeued > 0 => current_frame.serial = dequeued
  /\ Len(analysed_frame_queue) <= dequeued
  /\ \A k \in 1..Len(analysed_frame_queue) : analysed_frame_queue[k].frame = k
  /\ pc \in {"loop", "get"} => Len(analysed_frame_queue) = dequeued
  /\ pc \in {"mode", "lane", "put_command", "set_timer", "encode", "put_frame"} =>
       Len(analysed_frame_queue) = dequeued - 1
  /\ \A i \in 1..Len(commands_queue) :
       /\ commands_queue[i].frame \in 1..dequeued
       /\ i > 1 => commands_queue[i - 1].frame < commands_queue[i].frame

\* two frames were waiting together and both have gone through, with commands
C7_Witness ==
  /\ Len(analysed_frame_queue) = 2
  /\ Len(commands_queue) = 2

\* ------------------------------------------------------------------ C8
\* C8: a worker parked in the dequeue (or in the enqueue on a full
\* annotated-frame channel) leaves it only by completing it, whatever the
\* stop flag says: on an empty input channel it stays parked and never
\* reaches STOPPED; once an item arrives it dequeues it and reaches STOPPED
\* only at a later while test (or at the break of that frame's encode).
C8_ShutdownHang ==
  [][ /\ pc = "get" =>
           \/ pc' = "get"
           \/ frame_queue # <<>> /\ dequeued' = dequeued + 1 /\ pc' = "mode"
      /\ pc = "put_frame" =>
           \/ pc' = "put_frame"
           \/ /\ Len(analysed_frame_queue) - analysed_taken < MaxQueue
              /\ Len(analysed_frame_queue') = Len(analysed_frame_queue) + 1
              /\ pc' = "loop"
      /\ (pc' = "stopped" /\ pc # "stopped") => pc \in {"loop", "encode"}
      /\ (pc = "loop" /\ pc' = "stopped") =>
           ~is_running /\ Len(analysed_frame_queue) = dequeued ]_vars

\* stop was requested and the worker sits in the dequeue on an empty channel
C8_Witness ==
  /\ pc = "get"
  /\ ~is_running
  /\ frame_queue = <<>>
  /\ dequeued >= 1
  /\ Len(analysed_frame_queue) = dequeued

\* ------------------------------------------------------------------ C9
\* commands put in the window [from, from + 300 ms)
InWindow(from) ==
  {i \in 1..Len(commands_queue) :
     from <= commands_queue[i].time /\ commands_queue[i].time < from + THROTTLE_MS}

\* C9 as stated: every 300 ms window that has gone by holds exactly one
\* command, once the worker has analysed a frame and is still analysing.
C9_Original ==
  \A k \in 0..(MaxTime \div THROTTLE_MS) :
    ( /\ pc \in {"encode", "put_frame", "loop", "get"}
      /\ dequeued >= 1 /\ mode /\ is_analysing
      /\ now >= start_time + THROTTLE_MS * (k + 1) )
      => Cardinality(InWindow(start_time + THROTTLE_MS * k)) = 1

\* C9 amended: every 300 ms window holds at most one command, whatever the
\* frame rate (a window opening at a command holds that command alone), and
\* the first 300 ms after the start hold none.
C9_RateLimit ==
  /\ InWindow(start_time) = {}
  /\ \A i \in 1..Len(commands_queue) :
       Cardinality(InWindow(commands_queue[i].time)) = 1

\* two commands were emitted
C9_Witness ==
  /\ Len(commands_queue) = 2
  /\ commands_queue[2].time - commands_queue[1].time > THROTTLE_MS

\* ----------------------------------------------------------------- C10
\* C10 as stated: for W = 640, centerX = 300 gives "4/", 330 gives "1/1/",
\* 345 gives "5/".
C10_Original ==
  \A i \in 1..Len(commands_queue) :
    LET c == commands_queue[i] IN
      c.width = 640 =>
        /\ c.final_x = 300 => c.token = LEFT
        /\ c.final_x = 330 => c.token = STRAIGHT
        /\ c.final_x = 345 => c.token = RIGHT

\* C10 amended: for W = 640, centerX = 300 gives "1/1/" (300 is the lower
\* edge of the deadband, not below it), 330 gives "1/1/", 345 gives "5/".
C10_Examples ==
  \A i \in 1..Len(commands_queue) :
    LET c == commands_queue[i] IN
      c.width = 640 =>
        /\ c.final_x = 300 => c.token = STRAIGHT
        /\ c.final_x = 330 => c.token = STRAIGHT
        /\ c.final_x = 345 => c.token = RIGHT

\* the command channel holds the commands of centerX = 300 and of centerX = 345
C10_Witness ==
  /\ Len(commands_queue) = 2
  /\ commands_queue[1].width = 640 /\ commands_queue[1].final_x = 300
  /\ commands_queue[1].token = STRAIGHT
  /\ commands_queue[2].width = 640 /\ commands_queue[2].final_x = 345
  /\ commands_queue[2].token = RIGHT

\* ====================================================================
\* CarMain.py: the thread that executes run(), and the callers of stop()
\* ====================================================================
analyserVars == << now, pc, is_running, is_analysing, frame_queue, produced, dequeued,
                   current_frame, mode, elapsed, pending, command_timer, coordVars,
                   logVars, start_time >>

\* CAR_MAIN.start() (line 59): the thread begins, run() not yet entered
CarStart ==
  /\ car_pc = "unstarted"
  /\ car_pc' = "set_flag"
  /\ UNCHANGED << car_is_running, car_lock, car_condition, stop_pc,
                  controller_server, streamer_server >>
  /\ UNCHANGED << analyserVars, laneVars >>

\* line 21: self.__is_running = True, written without the lock
RunSetFlag ==
  /\ car_pc = "set_flag"
  /\ car_is_running' = TRUE
  /\ car_pc' = "create"
  /\ UNCHANGED << car_lock, car_condition, stop_pc, controller_server, streamer_server >>
  /\ UNCHANGED << analyserVars, laneVars >>

\* lines 22-23: the two servers constructed
RunCreateServers ==
  /\ car_pc = "create"
  /\ controller_server' = "created"
  /\ streamer_server' = "created"
  /\ car_pc' = "start"
  /\ UNCHANGED << car_is_running, car_lock, car_condition, stop_pc >>
  /\ UNCHANGED << analyserVars, laneVars >>

\* lines 24-25: the two servers started
RunStartServers ==
  /\ car_pc = "start"
  /\ controller_server' = "started"
  /\ streamer_server' = "started"
  /\ car_pc' = "acquire"
  /\ UNCHANGED << car_is_running, car_lock, car_condition, stop_pc >>
  /\ UNCHANGED << analyserVars, laneVars >>

\* line 28: self.__is_running_lock.acquire(), blocking
RunAcquire ==
  /\ car_pc = "acquire"
  /\ car_lock = "free"
  /\ car_lock' = "run"
  /\ car_pc' = "read"
  /\ UNCHANGED << car_is_running, car_condition, stop_pc, controller_server, streamer_server >>
  /\ UNCHANGED << analyserVars, laneVars >>

\* line 29: condition = self.__is_running
RunRead ==
  /\ car_pc = "read"
  /\ car_condition' = car_is_running
  /\ car_pc' = "release"
  /\ UNCHANGED << car_is_running, car_lock, stop_pc, controller_server, streamer_server >>
  /\ UNCHANGED << analyserVars, laneVars >>

\* line 30: self.__is_running_lock.release()
RunRelease ==
  /\ car_pc = "release"
  /\ car_lock' = "free"
  /\ car_pc' = "test"
  /\ UNCHANGED << car_is_running, car_condition, stop_pc, controller_server, streamer_server >>
  /\ UNCHANGED << analyserVars, laneVars >>

\* lines 31-32: if bool(condition) is False: break
RunTest ==
  /\ car_pc = "test"
  /\ car_pc' = IF car_condition THEN "acquire" ELSE "stop_servers"
  /\ UNCHANGED << car_is_running, car_lock, car_condition, stop_pc,
                  controller_server, streamer_server >>
  /\ UNCHANGED << analyserVars, laneVars >>

\* lines 36-37: stop() called on both servers
RunStopServers ==
  /\ car_pc = "stop_servers"
  /\ controller_server' = "stopped"
  /\ streamer_server' = "stopped"
  /\ car_pc' = "join"
  /\ UNCHANGED << car_is_running, car_lock, car_condition, stop_pc >>
  /\ UNCHANGED << analyserVars, laneVars >>

\* lines 38-39: both servers joined
RunJoin ==
  /\ car_pc = "join"
  /\ controller_server' = "joined"
  /\ streamer_server' = "joined"
  /\ car_pc' = "done"
  /\ UNCHANGED << car_is_running, car_lock, car_condition, stop_pc >>
  /\ UNCHANGED << analyserVars, laneVars >>

\* a thread calls CarMain.stop(), at any time after CarMain.start()
StopCall(c) ==
  /\ car_pc # "unstarted"
  /\ stop_pc[c] = "idle"
  /\ stop_pc' = [stop_pc EXCEPT ![c] = "acquire"]
  /\ UNCHANGED << car_pc, car_is_running, car_lock, car_condition,
                  controller_server, streamer_server >>
  /\ UNCHANGED << analyserVars, laneVars >>

\* line 45: self.__is_running_lock.acquire()
StopAcquire(c) ==
  /\ stop_pc[c] = "acquire"
  /\ car_lock = "free"
  /\ car_lock' = c
  /\ stop_pc' = [stop_pc EXCEPT ![c] = "set"]
  /\ UNCHANGED << car_pc, car_is_running, car_condition, controller_server, streamer_server >>
  /\ UNCHANGED << analyserVars, laneVars >>

\* line 46: self.__is_running = False
StopSet(c) ==
  /\ stop_pc[c] = "set"
  /\ car_is_running' = FALSE
  /\ stop_pc' = [stop_pc EXCEPT ![c] = "release"]
  /\ UNCHANGED << car_pc, car_lock, car_condition, controller_server, streamer_server >>
  /\ UNCHANGED << analyserVars, laneVars >>

\* line 47: self.__is_running_lock.release(); stop() returns
StopRelease(c) ==
  /\ stop_pc[c] = "release"
  /\ car_lock' = "free"
  /\ stop_pc' = [stop_pc EXCEPT ![c] = "returned"]
  /\ UNCHANGED << car_pc, car_is_running, car_condition, controller_server, streamer_server >>
  /\ UNCHANGED << analyserVars, laneVars >>

\* the steps of the thread that executes run()
RunThread ==
  \/ RunSetFlag
  \/ RunCreateServers
  \/ RunStartServers
  \/ RunAcquire
  \/ RunRead
  \/ RunRelease
  \/ RunTest
  \/ RunStopServers
  \/ RunJoin

\* the steps of stop() once it has been called
StopThread(c) == StopAcquire(c) \/ StopSet(c) \/ StopRelease(c)

NextMain ==
  \/ CarStart
  \/ RunSetFlag
  \/ RunCreateServers
  \/ RunStartServers
  \/ RunAcquire
  \/ RunRead
  \/ RunRelease
  \/ RunTest
  \/ RunStopServers
  \/ RunJoin
  \/ \E c \in Stoppers : StopCall(c)
  \/ \E c \in Stoppers : StopAcquire(c)
  \/ \E c \in Stoppers : StopSet(c)
  \/ \E c \in Stoppers : StopRelease(c)

\* every started thread keeps being scheduled and no thread waits for ever
\* for a lock that is released again and again: run() takes its next step,
\* and a stop() that was called runs to its return; nobody is obliged to
\* call stop()
SpecMain ==
  /\ Init
  /\ [][NextMain]_vars
  /\ SF_vars(RunThread)
  /\ \A c \in Stoppers : SF_vars(StopThread(c))

\* ====================================================================
\* Properties of __draw_lines (SpecLanes)
\* ====================================================================
SegSet(ls) == { ls[i] : i \in DOMAIN ls }

\* the frame just analysed had raw segments, so __draw_lines ran to its end
LanesRan == lanes_done = 1 /\ lane_out.locals.ran

\* sign of the true slope (y2 - y1)/(x2 - x1); a vertical segment counts as 999
SlopePositive(seg) == seg[3] = seg[1] \/ (seg[4] - seg[2]) * (seg[3] - seg[1]) > 0
SlopeNegative(seg) == seg[3] # seg[1] /\ (seg[4] - seg[2]) * (seg[3] - seg[1]) < 0

\* magnitude of the true slope greater than 0.5
SteepEnough(seg) == 2 * Abs(seg[4] - seg[2]) > Abs(seg[3] - seg[1])

C12_SlopeEligibility ==
  LanesRan =>
    \A seg \in SegSet(lane_in.lines) :
      /\ seg \in SegSet(lane_out.locals.new_lines) => SteepEnough(seg)
      /\ ~SteepEnough(seg) =>
           seg \notin SegSet(lane_out.locals.right_lines) \cup SegSet(lane_out.locals.left_lines)
      /\ SteepEnough(seg) => seg \in SegSet(lane_out.locals.new_lines)

\* ------------------------------------------------------------------ C14
\* C14: a side is fitted and its line is drawn iff at least one segment was
\* classified to that side in the current frame; for an empty side no
\* regression is run and no line is drawn.
C14_SideValidity ==
  LanesRan =>
    /\ lane_out.locals.draw_right <=> lane_out.locals.right_lines # <<>>
    /\ lane_out.locals.draw_left <=> lane_out.locals.left_lines # <<>>
    /\ "right" \in lane_out.locals.polyfit <=> lane_out.locals.right_lines # <<>>
    /\ "left" \in lane_out.locals.polyfit <=> lane_out.locals.left_lines # <<>>

\* a frame with segments on the left only: the left line drawn, the right not
C14_Witness ==
  /\ LanesRan
  /\ lane_out.locals.left_lines # <<>>
  /\ lane_out.locals.right_lines = <<>>
  /\ lane_out.locals.draw_left
  /\ ~lane_out.locals.draw_right

\* ------------------------------------------------------------------ C13
\* C13: the lane-center x of a frame is computed only from sides that had a
\* classified segment in that frame: the coordinate that the fallback model
\* (m = 1, b = 1) gives for an empty side never enters the center that is
\* drawn and compared against the deadband.
C13_NoFallbackInCenter ==
  LanesRan =>
    /\ lane_out.locals.right_lines = <<>> =>
         lane_out.final_x # FinalX(ExtrapolateX(<<>>, lane_in.height), left_x1_coord)
    /\ lane_out.locals.left_lines = <<>> =>
         lane_out.final_x # FinalX(right_x1_coord, ExtrapolateX(<<>>, lane_in.height))

\* ------------------------------------------------------------------ C15
\* C15: the command computed for a frame (the throttle left aside) and its
\* LEFT/RIGHT segment sets are a function of the frame alone: after any
\* history they are what the same frame gives from the initial state, so two
\* histories never give different results.
C15_FrameAlone ==
  lanes_done = 1 =>
    LET fresh == DrawLines(lane_in, [right_x1 |-> INIT_COORD, left_x1 |-> INIT_COORD,
                                     y1 |-> INIT_COORD])
    IN /\ lane_out.token = Decide(FinalX(fresh.right_x1, fresh.left_x1), lane_in.width)
       /\ lane_out.locals.right_lines = DrawLinesLocals(lane_in).right_lines
       /\ lane_out.locals.left_lines = DrawLinesLocals(lane_in).left_lines

\* ------------------------------------------------------------------ C16
\* exactly one side of the frame just analysed has classified segments
OnlyLeft == LanesRan /\ lane_out.locals.left_lines # <<>> /\ lane_out.locals.right_lines = <<>>
OnlyRight == LanesRan /\ lane_out.locals.right_lines # <<>> /\ lane_out.locals.left_lines = <<>>

\* C16 as stated: with exactly one valid side the lane-center x is the
\* average of that side's fresh bottom-row x and the x stored for the other
\* side by a previous frame.
C16_Original ==
  [][ /\ OnlyLeft' => lane_out'.final_x = FinalX(right_x1_coord, left_x1_coord')
      /\ OnlyRight' => lane_out'.final_x = FinalX(right_x1_coord', left_x1_coord) ]_vars

\* C16: with exactly one valid side the lane-center x is the average of that
\* side's fresh bottom-row x and of H - 1, the bottom-row x of the fallback
\* line m = 1, b = 1, which is also stored for the empty side.
C16_MarkerOneSide ==
  [][ /\ OnlyLeft' =>
           /\ left_x1_coord' = ExtrapolateX(lane_out'.locals.left_lines, lane_in'.height)
           /\ right_x1_coord' = lane_in'.height - 1
           /\ lane_out'.final_x = (left_x1_coord' + lane_in'.height - 1) \div 2
      /\ OnlyRight' =>
           /\ right_x1_coord' = ExtrapolateX(lane_out'.locals.right_lines, lane_in'.height)
           /\ left_x1_coord' = lane_in'.height - 1
           /\ lane_out'.final_x = (right_x1_coord' + lane_in'.height - 1) \div 2 ]_vars

\* a frame with a left lane only: the center is the average of its x and H - 1
C16_Witness ==
  /\ OnlyLeft
  /\ right_x1_coord = lane_in.height - 1
  /\ left_x1_coord # lane_in.height - 1
  /\ lane_out.final_x = (left_x1_coord + right_x1_coord) \div 2

\* ------------------------------------------------------------------ C17
\* the frame just analysed had no segments (None or an empty list)
BlankFrame == lanes_done = 1 /\ ~lane_out.locals.ran

StoredInitial ==
  right_x1_coord = INIT_COORD /\ left_x1_coord = INIT_COORD /\ y1_coord = INIT_COORD

\* C17 as stated: a frame without segments leaves the stored coordinates as
\* they were and the decision runs on them; while they are still the initial
\* 1, 1, 1 the lane-center x is 1 and the command is "4/" for every W > 42.
C17_Original ==
  [][ BlankFrame' =>
        /\ coordVars' = coordVars
        /\ lane_out'.final_x = FinalX(right_x1_coord, left_x1_coord)
        /\ lane_out'.token \in {LEFT, RIGHT, STRAIGHT}
        /\ StoredInitial => /\ lane_out'.final_x = 1
                            /\ lane_in'.width > 42 => lane_out'.token = LEFT ]_vars

\* C17: the same, the command being "4/" for every W >= 44 and "1/1/" for W = 43
C17_NoSegments ==
  [][ BlankFrame' =>
        /\ coordVars' = coordVars
        /\ lane_out'.final_x = FinalX(right_x1_coord, left_x1_coord)
        /\ lane_out'.token \in {LEFT, RIGHT, STRAIGHT}
        /\ StoredInitial => /\ lane_out'.final_x = 1
                            /\ lane_in'.width >= 44 => lane_out'.token = LEFT
                            /\ lane_in'.width = 43 => lane_out'.token = STRAIGHT ]_vars

\* a frame without segments analysed after a frame with segments: the
\* decision ran on the coordinates that frame wrote
C17_Witness ==
  /\ BlankFrame
  /\ ~StoredInitial
  /\ lane_out.final_x = FinalX(right_x1_coord, left_x1_coord)

\* ====================================================================
\* Properties of the worker loop, continued (Spec)
\* ====================================================================
\* ------------------------------------------------------------------ C18
\* every frame dequeued so far has at most one command, and there are no
\* more commands than frames dequeued
C18_Counts ==
  /\ Len(commands_queue) <= dequeued
  /\ \A i \in 1..Len(commands_queue) :
       /\ commands_queue[i].frame \in 1..dequeued
       /\ CmdCount(commands_queue[i].frame) = 1

\* C18: an ANALYZE iteration puts at most one command, and puts it before
\* the annotated output of its frame; so there are never more commands than
\* frames dequeued, and the output of a frame is put after its command, if
\* it is put at all.
C18_OutputOrdering ==
  [][ /\ commands_queue' # commands_queue =>
           /\ mode
           /\ Len(commands_queue') = Len(commands_queue) + 1
           /\ commands_queue'[Len(commands_queue')].frame = current_frame.serial
           /\ OutCount(current_frame.serial) = 0
           /\ analysed_frame_queue' = analysed_frame_queue
      /\ C18_Counts' ]_vars

\* the worker has stopped on an encode failure after it put the command of
\* the frame: the command exists, the annotated output of the frame does not
C18_Witness ==
  /\ pc = "stopped"
  /\ \E i \in 1..Len(commands_queue) :
       /\ commands_queue[i].frame = current_frame.serial
       /\ OutCount(commands_queue[i].frame) = 0

\* ====================================================================
\* Properties of CarMain (SpecMain)
\* ====================================================================
\* run() is past its polling loop (lines 36-39)
LeftPollingLoop == car_pc \in {"stop_servers", "join", "done"}

\* ------------------------------------------------------------------ C19
\* C19: a call of CarMain.stop() made at any time after CarMain.start()
\* eventually makes run() leave its polling loop, stop both servers and join
\* them, whatever the interleaving of the call with the thread of run().
C19_Shutdown ==
  \A c \in Stoppers :
    (stop_pc[c] = "returned") ~>
      (car_pc = "done" /\ controller_server = "joined" /\ streamer_server = "joined")

====
